---------------------------- MODULE Spec2Model ----------------------------
(* Word clock for OpenEPaperLink (wordclock_9_7.py): the time-to-words     *)
(* resolver get_active_words, the layout verifier verify_layout, and the   *)
(* main program: verification at startup, then the service loop that      *)
(* resolves, draws and uploads once per minute change.                     *)
(* A Python str is modelled as a sequence of one-letter strings, a dict   *)
(* as a function (its insertion order, where the code iterates it, as a   *)
(* sequence of keys), None as the value None.                             *)
EXTENDS Integers, Sequences, FiniteSets

VARIABLES
    pc,               \* position of the running call
    hour,             \* get_active_words: argument hour
    minute,           \* get_active_words: argument minute
    active_keys,      \* get_active_words: the returned list
    grid,             \* verify_layout: argument grid
    word_map,         \* verify_layout: argument word_map (key -> list of spans)
    key_order,        \* verify_layout: iteration order of word_map.items()
    key_to_word_map,  \* verify_layout: argument key_to_word_map
    next_key,         \* verify_layout: index in key_order of the next key of the loop
    checked_keys,     \* verify_layout: local checked_keys
    all_ok,           \* verify_layout: local all_ok
    printed,          \* verify_layout: the lines printed, as <<kind, key>>
    extracted,        \* verify_layout: the grid slices taken, as <<key, span index>>
    result,           \* verify_layout: the returned value (read when pc = "done")
    hour_words,       \* get_active_words: argument hour_words_map
    now,              \* main: the wall clock, in seconds since midnight
    last_minute_checked,   \* main: local last_minute_checked
    last_sent_image_hash,  \* main: local last_sent_image_hash
    clock_image,      \* main: local clock_image, as the set of highlighted cells
    current_image_hash,    \* main: local current_image_hash
    send_successful,  \* main: local send_successful (None before the first upload)
    exit_code,        \* main: the exit code of the process (None while it runs)
    calls,            \* main: the functions the service loop has called so far
    displayed,        \* the image the access point received last: {} or {image}
    net,              \* the environment of this run: "slow", "flaky" or "down"
    faults_left       \* the failures a flaky environment may still cause

loopVars == <<now, last_minute_checked, last_sent_image_hash, clock_image,
              current_image_hash, send_successful, exit_code, calls,
              displayed, net, faults_left>>

vars == <<pc, hour, minute, active_keys, grid, word_map, key_order,
          key_to_word_map, next_key, checked_keys, all_ok, printed,
          extracted, result, hour_words, loopVars>>

None == "None"

-----------------------------------------------------------------------------
(* Static configuration                                                    *)

HOUR_WORDS ==
    [h \in 1..12 |->
        CASE h = 1 -> "ONE_H"     [] h = 2 -> "TWO_H"     [] h = 3 -> "THREE_H"
          [] h = 4 -> "FOUR_H"    [] h = 5 -> "FIVE_H"    [] h = 6 -> "SIX_H"
          [] h = 7 -> "SEVEN_H"   [] h = 8 -> "EIGHT_H"   [] h = 9 -> "NINE_H"
          [] h = 10 -> "TEN_H"    [] h = 11 -> "ELEVEN_H" [] h = 12 -> "TWELVE_H"]

GRID_LAYOUT ==
    << <<"I", "T", "L", "I", "S", "M", "T", "E", "N", "S", "A">>,
       <<"H", "A", "L", "F", "Q", "U", "A", "R", "T", "E", "R">>,
       <<"T", "W", "E", "N", "T", "Y", "F", "I", "V", "E", "S">>,
       <<"M", "I", "N", "U", "T", "E", "S", "P", "A", "S", "T">>,
       <<"T", "O", "X", "O", "N", "E", "L", "E", "V", "E", "N">>,
       <<"T", "W", "O", "S", "I", "X", "T", "H", "R", "E", "E">>,
       <<"F", "O", "U", "R", "F", "I", "V", "E", "S", "E", "V">>,
       <<"E", "I", "G", "H", "T", "N", "I", "N", "E", "A", "M">>,
       <<"P", "M", "T", "W", "E", "L", "V", "E", "X", "T", "N">>,
       <<"O", "C", "L", "O", "C", "K", "Y", "T", "I", "M", "E">> >>

\* the keys of WORD_POSITIONS in the order of the dict literal (the order of .items())
WORD_POSITIONS_ORDER ==
    << "IT", "IS", "A", "MINUTES", "PAST", "TO",
       "OCLOCK", "QUARTER", "TWENTY", "FIVE_M", "HALF", "TEN_M",
       "ONE_H", "TWO_H", "THREE_H", "FOUR_H", "FIVE_H", "SIX_H",
       "SEVEN_H", "EIGHT_H", "NINE_H", "TEN_H", "ELEVEN_H", "TWELVE_H" >>

WORD_POSITIONS ==
    [k \in {WORD_POSITIONS_ORDER[i] : i \in 1..Len(WORD_POSITIONS_ORDER)} |->
        CASE k = "IT" -> <<<<0, 0, 1>>>>
          [] k = "IS" -> <<<<0, 3, 4>>>>
          [] k = "A" -> <<<<0, 10, 10>>>>
          [] k = "MINUTES" -> <<<<3, 0, 6>>>>
          [] k = "PAST" -> <<<<3, 7, 10>>>>
          [] k = "TO" -> <<<<4, 0, 1>>>>
          [] k = "OCLOCK" -> <<<<9, 0, 5>>>>
          [] k = "QUARTER" -> <<<<1, 4, 10>>>>
          [] k = "TWENTY" -> <<<<2, 0, 5>>>>
          [] k = "FIVE_M" -> <<<<2, 6, 9>>>>
          [] k = "HALF" -> <<<<1, 0, 3>>>>
          [] k = "TEN_M" -> <<<<0, 6, 8>>>>
          [] k = "ONE_H" -> <<<<4, 3, 5>>>>
          [] k = "TWO_H" -> <<<<5, 0, 2>>>>
          [] k = "THREE_H" -> <<<<5, 6, 10>>>>
          [] k = "FOUR_H" -> <<<<6, 0, 3>>>>
          [] k = "FIVE_H" -> <<<<6, 4, 7>>>>
          [] k = "SIX_H" -> <<<<5, 3, 5>>>>
          [] k = "SEVEN_H" -> <<<<6, 8, 10>>>>
          [] k = "EIGHT_H" -> <<<<7, 0, 4>>>>
          [] k = "NINE_H" -> <<<<7, 5, 8>>>>
          [] k = "TEN_H" -> <<<<0, 6, 8>>>>
          [] k = "ELEVEN_H" -> <<<<4, 5, 10>>>>
          [] k = "TWELVE_H" -> <<<<8, 2, 7>>>>]

INTERNAL_KEY_TO_WORD ==
    [k \in {"IT", "IS", "A", "QUARTER", "TWENTY", "FIVE_M", "HALF", "TEN_M",
            "MINUTES", "PAST", "TO", "OCLOCK", "ONE_H", "TWO_H", "THREE_H",
            "FOUR_H", "FIVE_H", "SIX_H", "SEVEN_H", "EIGHT_H", "NINE_H",
            "TEN_H", "ELEVEN_H", "TWELVE_H"} |->
        CASE k = "IT" -> <<"I", "T">>
          [] k = "IS" -> <<"I", "S">>
          [] k = "A" -> <<"A">>
          [] k = "QUARTER" -> <<"Q", "U", "A", "R", "T", "E", "R">>
          [] k = "TWENTY" -> <<"T", "W", "E", "N", "T", "Y">>
          [] k = "FIVE_M" -> <<"F", "I", "V", "E">>
          [] k = "HALF" -> <<"H", "A", "L", "F">>
          [] k = "TEN_M" -> <<"T", "E", "N">>
          [] k = "MINUTES" -> <<"M", "I", "N", "U", "T", "E", "S">>
          [] k = "PAST" -> <<"P", "A", "S", "T">>
          [] k = "TO" -> <<"T", "O">>
          [] k = "OCLOCK" -> <<"O", "C", "L", "O", "C", "K">>
          [] k = "ONE_H" -> <<"O", "N", "E">>
          [] k = "TWO_H" -> <<"T", "W", "O">>
          [] k = "THREE_H" -> <<"T", "H", "R", "E", "E">>
          [] k = "FOUR_H" -> <<"F", "O", "U", "R">>
          [] k = "FIVE_H" -> <<"F", "I", "V", "E">>
          [] k = "SIX_H" -> <<"S", "I", "X">>
          [] k = "SEVEN_H" -> <<"S", "E", "V">>
          [] k = "EIGHT_H" -> <<"E", "I", "G", "H", "T">>
          [] k = "NINE_H" -> <<"N", "I", "N", "E">>
          [] k = "TEN_H" -> <<"T", "E", "N">>
          [] k = "ELEVEN_H" -> <<"E", "L", "E", "V", "E", "N">>
          [] k = "TWELVE_H" -> <<"T", "W", "E", "L", "V", "E">>]

-----------------------------------------------------------------------------
(* get_active_words                                                        *)

\* the keys occurring in a list
Keys(s) == {s[i] : i \in 1..Len(s)}

\* dict.get(key): the value, or None when the key is missing
DictGet(map, key) == IF key \in DOMAIN map THEN map[key] ELSE None

DisplayHourNoTwelve(h) == h % 12
\* display_hour = hour % 12; if display_hour == 0: display_hour = 12
DisplayHour(h) == IF h % 12 = 0 THEN 12 ELSE h % 12

NextHourPlain(display_hour) == display_hour + 1
\* next_hour = (display_hour % 12) + 1
NextHour(display_hour) == (display_hour % 12) + 1

ShowMinutesWordAlways(m) == m >= 5
\* show_minutes_word: minute in range(5,15), range(20,30), range(35,45), range(50,60)
ShowMinutesWord(m) ==
    \/ m \in 5..14
    \/ m \in 20..29
    \/ m \in 35..44
    \/ m \in 50..59

BucketKeysSwapped(m, current_hour_key) ==
    IF m < 5 THEN <<current_hour_key, "OCLOCK">>
    ELSE IF m < 10 THEN <<"TEN_M">>
    ELSE IF m < 15 THEN <<"FIVE_M">>
    ELSE IF m < 20 THEN <<"A", "QUARTER">>
    ELSE IF m < 25 THEN <<"TWENTY">>
    ELSE IF m < 30 THEN <<"TWENTY", "FIVE_M">>
    ELSE IF m < 35 THEN <<"HALF">>
    ELSE IF m < 40 THEN <<"TWENTY", "FIVE_M">>
    ELSE IF m < 45 THEN <<"TWENTY">>
    ELSE IF m < 50 THEN <<"A", "QUARTER">>
    ELSE IF m < 55 THEN <<"TEN_M">>
    ELSE <<"FIVE_M">>
\* the if/elif chain over the minute intervals: what it puts in temp_keys
BucketKeys(m, current_hour_key) ==
    IF m < 5 THEN <<current_hour_key, "OCLOCK">>
    ELSE IF m < 10 THEN <<"FIVE_M">>
    ELSE IF m < 15 THEN <<"TEN_M">>
    ELSE IF m < 20 THEN <<"A", "QUARTER">>
    ELSE IF m < 25 THEN <<"TWENTY">>
    ELSE IF m < 30 THEN <<"TWENTY", "FIVE_M">>
    ELSE IF m < 35 THEN <<"HALF">>
    ELSE IF m < 40 THEN <<"TWENTY", "FIVE_M">>
    ELSE IF m < 45 THEN <<"TWENTY">>
    ELSE IF m < 50 THEN <<"A", "QUARTER">>
    ELSE IF m < 55 THEN <<"TEN_M">>
    ELSE <<"FIVE_M">>

DirectionKeysPastUntil35(m) ==
    IF 0 < m /\ m < 35
    THEN (IF m \notin 0..4 THEN <<"PAST">> ELSE <<>>)
    ELSE IF m >= 35 THEN <<"TO">> ELSE <<>>
\* Add "PAST" or "TO" (except for O'Clock and Half Past)
DirectionKeys(m) ==
    IF 0 < m /\ m < 35
    THEN (IF m \notin 30..34 /\ m \notin 0..4 THEN <<"PAST">> ELSE <<>>)
    ELSE IF m >= 35 THEN <<"TO">> ELSE <<>>

HourKeysMidnight(m, current_hour_key, next_hour_key) ==
    IF 0 < m /\ m < 35 THEN <<current_hour_key>>
    ELSE IF m >= 35
    THEN (IF next_hour_key = "TWELVE_H" THEN <<"MIDNIGHT">> ELSE <<next_hour_key>>)
    ELSE <<>>
\* Add the correct Hour word
HourKeys(m, current_hour_key, next_hour_key) ==
    IF 0 < m /\ m < 35 THEN <<current_hour_key>>
    ELSE IF m >= 35 THEN <<next_hour_key>>
    ELSE <<>>

get_active_wordsUnfiltered(h, m, hour_words_map) ==
    LET display_hour == DisplayHour(h)
        minute_precise == m
        current_hour_key == DictGet(hour_words_map, display_hour)
        next_hour == NextHour(display_hour)
        next_hour_key == DictGet(hour_words_map, next_hour)
        temp_keys ==
            BucketKeys(minute_precise, current_hour_key)
            \o (IF ShowMinutesWord(minute_precise) THEN <<"MINUTES">> ELSE <<>>)
            \o DirectionKeys(minute_precise)
            \o HourKeys(minute_precise, current_hour_key, next_hour_key)
    IN  <<"IT", "IS">> \o temp_keys
get_active_words(h, m, hour_words_map) ==
    LET display_hour == DisplayHour(h)
        minute_precise == m
        current_hour_key == DictGet(hour_words_map, display_hour)
        next_hour == NextHour(display_hour)
        next_hour_key == DictGet(hour_words_map, next_hour)
        temp_keys ==
            BucketKeys(minute_precise, current_hour_key)
            \o (IF ShowMinutesWord(minute_precise) THEN <<"MINUTES">> ELSE <<>>)
            \o DirectionKeys(minute_precise)
            \o HourKeys(minute_precise, current_hour_key, next_hour_key)
    IN  <<"IT", "IS">> \o SelectSeq(temp_keys, LAMBDA key : key # None)

-----------------------------------------------------------------------------
(* verify_layout                                                           *)

\* Basic Grid Structure Check: grid and grid[0] are non-empty and every row
\* has the length of grid[0]
GridStructureOk(g) ==
    /\ Len(g) > 0
    /\ Len(g[1]) > 0
    /\ \A r \in 1..Len(g) : Len(g[r]) = Len(g[1])

SpanInBoundsNoOrder(pos_info, grid_rows, grid_cols) ==
    /\ 0 <= pos_info[1] /\ pos_info[1] < grid_rows
    /\ 0 <= pos_info[2] /\ pos_info[2] < grid_cols
    /\ 0 <= pos_info[3] /\ pos_info[3] < grid_cols
\* Check coordinate bounds: pos_info is (row, start_col, end_col)
SpanInBounds(pos_info, grid_rows, grid_cols) ==
    /\ 0 <= pos_info[1] /\ pos_info[1] < grid_rows
    /\ 0 <= pos_info[2] /\ pos_info[2] < grid_cols
    /\ 0 <= pos_info[3] /\ pos_info[3] < grid_cols
    /\ pos_info[2] <= pos_info[3]

SliceDropLast(s, start, stop) == SubSeq(s, start + 1, stop - 1)
\* s[start : stop] for 0 <= start and stop <= len(s); empty when stop <= start
Slice(s, start, stop) == SubSeq(s, start + 1, stop)

RECURSIVE CheckSpansNoBreak(_, _, _, _, _)
CheckSpansNoBreak(g, pos_list, i, word, taken) ==
    IF i > Len(pos_list)
    THEN [valid_positions_found |->
              \A n \in 1..Len(pos_list) : n \in taken,
          extracted_word |-> word, slices |-> taken]
    ELSE IF /\ 0 <= pos_list[i][1] /\ pos_list[i][1] < Len(g)
            /\ 0 <= pos_list[i][2] /\ pos_list[i][2] < Len(g[1])
            /\ 0 <= pos_list[i][3] /\ pos_list[i][3] < Len(g[1])
            /\ pos_list[i][2] <= pos_list[i][3]
    THEN CheckSpansNoBreak(g, pos_list, i + 1,
                    word \o SubSeq(g[pos_list[i][1] + 1], pos_list[i][2] + 1, pos_list[i][3] + 1),
                    taken \cup {i})
    ELSE CheckSpansNoBreak(g, pos_list, i + 1, word, taken)
\* (positions are lists of (row, start_col, end_col) triples here: the branches
\* for a bare tuple and for malformed position info are those of other inputs;
\* a slice of a str raises no IndexError)
\* the for loop over pos_list from its i-th span on, with extracted_word = word
\* so far: whether every span was valid (no break), the extracted word, and
\* the indices of the spans a slice was taken at
RECURSIVE CheckSpans(_, _, _, _, _)
CheckSpans(g, pos_list, i, word, taken) ==
    IF i > Len(pos_list)
    THEN [valid_positions_found |-> TRUE, extracted_word |-> word, slices |-> taken]
    ELSE IF SpanInBounds(pos_list[i], Len(g), Len(g[1]))
    THEN CheckSpans(g, pos_list, i + 1,
                    word \o Slice(g[pos_list[i][1] + 1], pos_list[i][2], pos_list[i][3] + 1),
                    taken \cup {i})
    ELSE [valid_positions_found |-> FALSE, extracted_word |-> word, slices |-> taken]

\* the structure check at the head of verify_layout
VerifyGridCheck ==
    /\ pc = "start"
    /\ IF GridStructureOk(grid)
       THEN /\ pc' = "loop"
            /\ UNCHANGED <<printed, result>>
       ELSE /\ printed' = printed \cup {<<"ERROR_GRID", None>>}
            /\ result' = FALSE
            /\ pc' = "done"
    /\ UNCHANGED <<hour, minute, active_keys, grid, word_map, key_order,
                   key_to_word_map, next_key, checked_keys, all_ok, extracted>>
    /\ UNCHANGED <<hour_words, loopVars>>

\* one iteration of: for key, positions in word_map.items()
VerifyKey ==
    /\ pc = "loop"
    /\ next_key <= Len(key_order)
    /\ LET key == key_order[next_key]
           positions == word_map[key]
           r == CheckSpans(grid, positions, 1, <<>>, {})
       IN  /\ next_key' = next_key + 1
           /\ IF key \in checked_keys
              THEN UNCHANGED <<checked_keys, all_ok, printed, extracted>>
              ELSE /\ checked_keys' = checked_keys \cup {key}
                   /\ IF positions = <<>>
                      THEN /\ printed' = IF key \in DOMAIN key_to_word_map
                                         THEN printed \cup {<<"INFO_NO_POSITIONS", key>>}
                                         ELSE printed
                           /\ UNCHANGED <<all_ok, extracted>>
                      ELSE IF key \notin DOMAIN key_to_word_map
                      THEN /\ printed' = printed \cup {<<"WARNING_CANNOT_VERIFY", key>>}
                           /\ UNCHANGED <<all_ok, extracted>>
                      ELSE /\ extracted' = extracted \cup {<<key, i>> : i \in r.slices}
                           /\ IF ~r.valid_positions_found
                              THEN /\ printed' = printed \cup {<<"ERROR_BOUNDS", key>>}
                                   /\ all_ok' = FALSE
                              ELSE IF r.extracted_word # key_to_word_map[key]
                              THEN /\ printed' = printed \cup {<<"ERROR_MISMATCH", key>>}
                                   /\ all_ok' = FALSE
                              ELSE UNCHANGED <<printed, all_ok>>
    /\ UNCHANGED <<pc, hour, minute, active_keys, grid, word_map, key_order,
                   key_to_word_map, result>>
    /\ UNCHANGED <<hour_words, loopVars>>

\* after the loop: return all_ok
VerifyReturn ==
    /\ pc = "loop"
    /\ next_key > Len(key_order)
    /\ result' = all_ok
    /\ pc' = "done"
    /\ UNCHANGED <<hour, minute, active_keys, grid, word_map, key_order,
                   key_to_word_map, next_key, checked_keys, all_ok, printed,
                   extracted>>
    /\ UNCHANGED <<hour_words, loopVars>>

-----------------------------------------------------------------------------
(* The resolver applied to every time of day                               *)

ResolveCall ==
    /\ pc = "resolve"
    /\ active_keys' = get_active_words(hour, minute, hour_words)
    /\ pc' = "resolved"
    /\ UNCHANGED <<hour, minute, grid, word_map, key_order, key_to_word_map,
                   next_key, checked_keys, all_ok, printed, extracted, result>>
    /\ UNCHANGED <<hour_words, loopVars>>

VerifyIdle ==
    /\ grid = <<>>
    /\ word_map = <<>>
    /\ key_order = <<>>
    /\ key_to_word_map = <<>>
    /\ next_key = 1
    /\ checked_keys = {}
    /\ all_ok = TRUE
    /\ printed = {}
    /\ extracted = {}
    /\ result = FALSE

\* the hash of an image that could not be hashed, and of no image at all
NoHash == <<FALSE, {}>>

\* the locals of the main block as they are set before the service loop, with
\* the environment's variables at rest
LoopIdle ==
    /\ now = 0
    /\ last_minute_checked = -1
    /\ last_sent_image_hash = NoHash
    /\ clock_image = {}
    /\ current_image_hash = NoHash
    /\ send_successful = None
    /\ exit_code = None
    /\ calls = {}
    /\ displayed = {}
    /\ net = "slow"
    /\ faults_left = 0

InitWords ==
    /\ pc = "resolve"
    /\ hour \in 0..23
    /\ minute \in 0..59
    /\ active_keys = <<>>
    /\ hour_words = HOUR_WORDS
    /\ VerifyIdle
    /\ LoopIdle

NextWords == ResolveCall

SpecWords == InitWords /\ [][NextWords]_vars

\* the resolver handed a map that lacks the entries of up to MaxMissing hours
MaxMissing == 2

\* HOUR_WORDS without the entries of the hours in missing
WithoutHours(missing) == [h \in DOMAIN HOUR_WORDS \ missing |-> HOUR_WORDS[h]]

PartialHourMaps ==
    {WithoutHours(missing) :
        missing \in {ms \in SUBSET DOMAIN HOUR_WORDS : Cardinality(ms) <= MaxMissing}}

InitMaps ==
    /\ pc = "resolve"
    /\ hour \in 0..23
    /\ minute \in 0..59
    /\ active_keys = <<>>
    /\ hour_words \in PartialHourMaps
    /\ VerifyIdle
    /\ LoopIdle

SpecMaps == InitMaps /\ [][NextWords]_vars

-----------------------------------------------------------------------------
(* The verifier applied to layouts: small layouts of every shape, and the   *)
(* program's own layout, intact and with defects                           *)

MaxRows == 2
MaxCols == 2

Letters == {"A", "B"}

\* the letter of a small grid at row i, column j: rows alternate "AB.." and "BA.."
LetterAt(i, j) == IF (i + j) % 2 = 0 THEN "A" ELSE "B"

\* the grid whose i-th row has lens[i] letters: empty, ragged and rectangular
SmallGrids ==
    { [i \in 1..Len(lens) |-> [j \in 1..lens[i] |-> LetterAt(i, j)]] :
        lens \in UNION {[1..r -> 0..MaxCols] : r \in 0..MaxRows} }

\* the rectangular grids with at least one row and one column
FullGrids ==
    { [i \in 1..r |-> [j \in 1..c |-> LetterAt(i, j)]] :
        r \in 1..MaxRows, c \in 1..MaxCols }

\* spans around a small grid: one position before its first row and column,
\* and up to the last row and column of the largest grid
SmallSpans ==
    (-1..(MaxRows - 1)) \X (-1..(MaxCols - 1)) \X (-1..(MaxCols - 1))

SpanListsOfOne == {<<>>} \cup {<<s>> : s \in SmallSpans}
SpanListsOfTwo == SpanListsOfOne \cup {<<s, t>> : s, t \in SmallSpans}

Words == UNION {[1..n -> Letters] : n \in 0..MaxCols}
ShortWords == {<<>>} \cup {<<c>> : c \in Letters}

\* the expected-word maps that give some of the keys one of the words
WordMaps(keys, words) == UNION {[present -> words] : present \in SUBSET keys}

VerifyStart ==
    /\ pc = "start"
    /\ hour = 0
    /\ minute = 0
    /\ active_keys = <<>>
    /\ next_key = 1
    /\ checked_keys = {}
    /\ all_ok = TRUE
    /\ printed = {}
    /\ extracted = {}
    /\ result = FALSE

\* every small grid, well-formed or not, with no key or one key of one span
InitAnyGrid ==
    /\ grid \in SmallGrids
    /\ \/ word_map = <<>> /\ key_order = <<>>
       \/ word_map \in [{"K1"} -> SpanListsOfOne] /\ key_order = <<"K1">>
    /\ key_to_word_map \in WordMaps({"K1"}, Words)

\* one key with up to two spans
InitOneKey ==
    /\ grid \in FullGrids
    /\ word_map \in [{"K1"} -> SpanListsOfTwo]
    /\ key_order = <<"K1">>
    /\ key_to_word_map \in WordMaps({"K1"}, Words)

\* two keys with up to one span each, iterated in either order
InitTwoKeys ==
    /\ grid \in FullGrids
    /\ word_map \in [{"K1", "K2"} -> SpanListsOfOne]
    /\ key_order \in {<<"K1", "K2">>, <<"K2", "K1">>}
    /\ key_to_word_map \in WordMaps({"K1", "K2"}, ShortWords)

\* spans at and beyond the edges of GRID_LAYOUT
EdgeSpans ==
    {-1, 0, Len(GRID_LAYOUT)} \X {0, 1} \X {0, Len(GRID_LAYOUT[1])}

\* WORD_POSITIONS with the span list of key k replaced
WithPositions(k, pos_list) == [WORD_POSITIONS EXCEPT ![k] = pos_list]

\* the program's layout, as it is or with the spans of one key replaced by, or
\* followed by, an edge span; and with the expected word of the first or the
\* last key of the map replaced
InitProgramLayout ==
    /\ grid = GRID_LAYOUT
    /\ key_order = WORD_POSITIONS_ORDER
    /\ \/ word_map = WORD_POSITIONS
       \/ \E k \in DOMAIN WORD_POSITIONS, s \in EdgeSpans :
             \/ word_map = WithPositions(k, <<s>>)
             \/ word_map = WithPositions(k, Append(WORD_POSITIONS[k], s))
    /\ \/ key_to_word_map = INTERNAL_KEY_TO_WORD
       \/ \E k \in {WORD_POSITIONS_ORDER[1],
                    WORD_POSITIONS_ORDER[Len(WORD_POSITIONS_ORDER)]} :
             key_to_word_map = [INTERNAL_KEY_TO_WORD EXCEPT ![k] = <<"X">>]

InitVerify ==
    /\ VerifyStart
    /\ hour_words = HOUR_WORDS
    /\ LoopIdle
    /\ InitAnyGrid \/ InitOneKey \/ InitTwoKeys \/ InitProgramLayout

NextVerify == VerifyGridCheck \/ VerifyKey \/ VerifyReturn

SpecVerify == InitVerify /\ [][NextVerify]_vars

-----------------------------------------------------------------------------
(* draw_word_clock                                                         *)

\* the cells of one span, when the span passes the bounds check of the drawing
\* loop (a span that fails it is skipped with a warning)
SpanCells(pos_info, grid_rows, grid_cols) ==
    LET row == pos_info[1]
        start_col == pos_info[2]
        end_col == pos_info[3]
    IN  IF /\ 0 <= row /\ row < grid_rows
           /\ 0 <= start_col /\ start_col < grid_cols
           /\ 0 <= end_col /\ end_col < grid_cols
           /\ start_col <= end_col
        THEN {<<row, col>> : col \in start_col..end_col}
        ELSE {}

\* active_char_positions: the cells of the spans of every active key that
\* word_positions has with a non-empty span list
ActiveCharPositions(keys, grid_layout, word_positions) ==
    UNION {UNION {SpanCells(word_positions[key][i], Len(grid_layout),
                            Len(grid_layout[1])) :
                     i \in 1..Len(word_positions[key])} :
              key \in {k \in Keys(keys) : k \in DOMAIN word_positions}}

\* The image: the grid is drawn letter by letter, a letter in the active
\* colour when its cell is in active_char_positions; a row whose length is
\* not grid_cols is not drawn.  With the grid, the fonts and the colours
\* fixed, the image is given by the set of cells drawn in the active colour;
\* the blank image returned for an empty grid has none.
draw_word_clock(keys, grid_layout, word_positions) ==
    IF Len(grid_layout) = 0 \/ Len(grid_layout[1]) = 0
    THEN {}
    ELSE {cell \in ActiveCharPositions(keys, grid_layout, word_positions) :
             Len(grid_layout[cell[1] + 1]) = Len(grid_layout[1])}

-----------------------------------------------------------------------------
(* The main program: verify_layout at startup, then the service loop.      *)
(* The wall clock advances while the loop sleeps and while an upload is    *)
(* in progress; resolving and drawing take no modelled time.  A run has    *)
(* one of three environments: slow (an upload takes up to the request      *)
(* timeout and succeeds), flaky (an upload returns at once, and at most    *)
(* MaxFaults times an upload or the hashing fails) or down (an upload      *)
(* returns at once and any upload may fail, for as long as the run lasts). *)

CHECK_INTERVAL_SECONDS == 50

\* timeout=45 of requests.post in send_image_to_server
UPLOAD_TIMEOUT == 45

MaxFaults == 1

\* now.minute and now.hour of a wall clock given in seconds since midnight
MinuteOf(t) == (t \div 60) % 60
HourOf(t) == t \div 3600

\* the wall clock d seconds after t
Advance(t, d) == (t + d) % (24 * 3600)

\* the times of day at which the loop may start: in steps of 5 s on the slow
\* network, of the check interval otherwise
StartTimes(network) ==
    {t \in 0..(24 * 3600 - 1) :
        t % (IF network = "slow" THEN 5 ELSE CHECK_INTERVAL_SECONDS) = 0}

\* how long send_image_to_server may take before it returns
UploadDelays(network) ==
    IF network = "slow" THEN {d \in 0..UPLOAD_TIMEOUT : d % 5 = 0} ELSE {0}

\* hash(clock_image.tobytes()): equal images have equal hashes, and the
\* hashes of different images are taken to differ
ImageHash(image) == <<TRUE, image>>

ShouldUploadAlways(image_hash, last_hash) == TRUE
\* the upload branches of the loop: the hash is there and differs from the last
\* one sent, or the hash is missing
ShouldUpload(image_hash, last_hash) ==
    \/ image_hash # NoHash /\ image_hash # last_hash
    \/ image_hash = NoHash

NewLastSentAnyOutcome(image_hash, last_hash, ok) ==
    IF image_hash # NoHash THEN image_hash ELSE last_hash
\* last_sent_image_hash after an upload: updated on success of the branch that
\* has a hash
NewLastSent(image_hash, last_hash, ok) ==
    IF ok /\ image_hash # NoHash THEN image_hash ELSE last_hash

EnterLoopAnyway(verified) == TRUE
\* if not verify_layout(...): sys.exit(1)
EnterLoop(verified) == verified

\* the check of the verification result, and the entry into the loop
StartupGate ==
    /\ pc = "done"
    /\ IF EnterLoop(result)
       THEN /\ pc' = "check"
            /\ now' \in StartTimes(net)
            /\ UNCHANGED exit_code
       ELSE /\ pc' = "exited"
            /\ exit_code' = 1
            /\ UNCHANGED now
    /\ UNCHANGED <<hour, minute, active_keys, grid, word_map, key_order,
                   key_to_word_map, next_key, checked_keys, all_ok, printed,
                   extracted, result, hour_words>>
    /\ UNCHANGED <<last_minute_checked, last_sent_image_hash, clock_image,
                   current_image_hash, send_successful, calls, displayed, net,
                   faults_left>>

\* one pass of the loop body up to the upload: read the clock and, on a minute
\* change, resolve, draw, hash and choose between upload and skip
LoopCheck ==
    /\ pc = "check"
    /\ LET current_minute == MinuteOf(now)
       IN  IF current_minute # last_minute_checked
           THEN \E hashed \in (IF faults_left > 0 THEN BOOLEAN ELSE {TRUE}) :
                LET keys == get_active_words(HourOf(now), current_minute, HOUR_WORDS)
                    image == draw_word_clock(keys, grid, word_map)
                    image_hash == IF hashed THEN ImageHash(image) ELSE NoHash
                IN  /\ hour' = HourOf(now)
                    /\ minute' = current_minute
                    /\ active_keys' = keys
                    /\ clock_image' = image
                    /\ current_image_hash' = image_hash
                    /\ faults_left' = IF hashed THEN faults_left ELSE faults_left - 1
                    /\ calls' = calls \cup {"get_active_words", "draw_word_clock"}
                    /\ IF ShouldUpload(image_hash, last_sent_image_hash)
                       THEN /\ pc' = "upload"
                            /\ UNCHANGED last_minute_checked
                       ELSE pc' = "skip"
           ELSE /\ pc' = "sleep"
                /\ UNCHANGED <<hour, minute, active_keys, clock_image,
                               current_image_hash, faults_left, calls>>
    /\ UNCHANGED <<grid, word_map, key_order, key_to_word_map, next_key,
                   checked_keys, all_ok, printed, extracted, result, hour_words>>
    /\ UNCHANGED <<now, last_minute_checked, last_sent_image_hash,
                   send_successful, exit_code, displayed, net>>

\* the branch that skips the upload: "Image content unchanged since last
\* successful upload. Skipping."
Skip ==
    /\ pc = "skip"
    /\ last_minute_checked' = minute
    /\ pc' = "sleep"
    /\ UNCHANGED <<hour, minute, active_keys, grid, word_map, key_order,
                   key_to_word_map, next_key, checked_keys, all_ok, printed,
                   extracted, result, hour_words>>
    /\ UNCHANGED <<now, last_sent_image_hash, clock_image, current_image_hash,
                   send_successful, exit_code, calls, displayed, net,
                   faults_left>>

\* send_image_to_server and what the loop does with its result
Upload ==
    /\ pc = "upload"
    /\ \E d \in UploadDelays(net),
          ok \in (IF net = "down" \/ faults_left > 0 THEN BOOLEAN ELSE {TRUE}) :
          /\ now' = Advance(now, d)
          /\ send_successful' = IF ok THEN "True" ELSE "False"
          /\ last_sent_image_hash' =
                NewLastSent(current_image_hash, last_sent_image_hash, ok)
          /\ displayed' = IF ok THEN {clock_image} ELSE displayed
          /\ faults_left' = IF ok \/ net = "down" THEN faults_left
                            ELSE faults_left - 1
    /\ calls' = calls \cup {"send_image_to_server"}
    /\ last_minute_checked' = minute
    /\ pc' = "sleep"
    /\ UNCHANGED <<hour, minute, active_keys, grid, word_map, key_order,
                   key_to_word_map, next_key, checked_keys, all_ok, printed,
                   extracted, result, hour_words>>
    /\ UNCHANGED <<clock_image, current_image_hash, exit_code, net>>

\* time.sleep(CHECK_INTERVAL_SECONDS)
Sleep ==
    /\ pc = "sleep"
    /\ now' = Advance(now, CHECK_INTERVAL_SECONDS)
    /\ pc' = "check"
    /\ UNCHANGED <<hour, minute, active_keys, grid, word_map, key_order,
                   key_to_word_map, next_key, checked_keys, all_ok, printed,
                   extracted, result, hour_words>>
    /\ UNCHANGED <<last_minute_checked, last_sent_image_hash, clock_image,
                   current_image_hash, send_successful, exit_code, calls,
                   displayed, net, faults_left>>

\* the program starts with its own layout, or with one of its defective
\* variants, in any of the environments
Init ==
    /\ VerifyStart
    /\ InitProgramLayout
    /\ hour_words = HOUR_WORDS
    /\ now = 0
    /\ last_minute_checked = -1
    /\ last_sent_image_hash = NoHash
    /\ clock_image = {}
    /\ current_image_hash = NoHash
    /\ send_successful = None
    /\ exit_code = None
    /\ calls = {}
    /\ displayed = {}
    /\ net \in {"slow", "flaky", "down"}
    /\ faults_left = IF net = "flaky" THEN MaxFaults ELSE 0

Next ==
    \/ VerifyGridCheck
    \/ VerifyKey
    \/ VerifyReturn
    \/ StartupGate
    \/ LoopCheck
    \/ Upload
    \/ Skip
    \/ Sleep

Spec == Init /\ [][Next]_vars

-----------------------------------------------------------------------------
(* Properties of get_active_words, stated on the returned list             *)

HourKeySet == {HOUR_WORDS[h] : h \in 1..12}

\* hour mod 12 with 0 treated as 12, as the specification words it
Hour12(h) == ((h + 11) % 12) + 1

\* (displayHour mod 12) + 1
Following(h) == (Hour12(h) % 12) + 1

\* C1: for every hour in 0..23 and minute in 0..59 the returned list contains
\* no key more than once.
C1_NoDuplicateKeys ==
    pc = "resolved" =>
        \A i, j \in 1..Len(active_keys) :
            i # j => active_keys[i] # active_keys[j]

\* C2: for every hour and every minute in 0..4 the returned list is exactly
\* [IT, IS, HOUR_WORDS[displayHour], OCLOCK], with nothing after OCLOCK.
C2_ExactHourList ==
    pc = "resolved" /\ minute \in 0..4 =>
        active_keys = <<"IT", "IS", HOUR_WORDS[Hour12(hour)], "OCLOCK">>

\* C3 as stated: get_active_words(15, 30, HOUR_WORDS) is
\* [IT, IS, HALF, PAST, THREE_H].
C3_HalfPastWithPast ==
    pc = "resolved" /\ hour = 15 /\ minute = 30 =>
        active_keys = <<"IT", "IS", "HALF", "PAST", "THREE_H">>

\* C3 as amended: get_active_words(15, 30, HOUR_WORDS) is
\* [IT, IS, HALF, THREE_H]: half past carries no PAST key.
C3_HalfPastThree ==
    pc = "resolved" /\ hour = 15 /\ minute = 30 =>
        active_keys = <<"IT", "IS", "HALF", "THREE_H">>

C3_Witness ==
    pc = "resolved" /\ hour = 15 /\ minute = 30 /\ "HALF" \in Keys(active_keys)

\* C4 as stated: for every hour and every minute in 1..29 the returned list
\* contains PAST and its hour key is HOUR_WORDS[displayHour].
C4_PastFromMinuteOne ==
    pc = "resolved" /\ minute \in 1..29 =>
        /\ "PAST" \in Keys(active_keys)
        /\ Keys(active_keys) \cap HourKeySet = {HOUR_WORDS[Hour12(hour)]}

\* C4 as amended: for every hour and every minute in 5..29 the returned list
\* contains PAST, and for every minute in 1..29 its hour key is
\* HOUR_WORDS[displayHour].
C4_PastAndCurrentHour ==
    pc = "resolved" =>
        /\ minute \in 5..29 => "PAST" \in Keys(active_keys)
        /\ minute \in 1..29 =>
              Keys(active_keys) \cap HourKeySet = {HOUR_WORDS[Hour12(hour)]}

C4_Witness ==
    /\ pc = "resolved" /\ hour = 12 /\ minute = 29
    /\ "PAST" \in Keys(active_keys)
    /\ "TWELVE_H" \in Keys(active_keys)

\* C5: for every hour and every minute in 35..59 the returned list contains TO,
\* does not contain PAST, and its hour key is HOUR_WORDS[(displayHour mod 12) + 1];
\* for every minute below 35 it contains neither TO nor the next hour's key.
C5_ToAndNextHour ==
    pc = "resolved" =>
        /\ minute \in 35..59 =>
              /\ "TO" \in Keys(active_keys)
              /\ "PAST" \notin Keys(active_keys)
              /\ Keys(active_keys) \cap HourKeySet = {HOUR_WORDS[Following(hour)]}
        /\ minute < 35 =>
              /\ "TO" \notin Keys(active_keys)
              /\ HOUR_WORDS[Following(hour)] \notin Keys(active_keys)

C5_Witness ==
    /\ pc = "resolved" /\ hour = 12 /\ minute = 35
    /\ "TO" \in Keys(active_keys)
    /\ "ONE_H" \in Keys(active_keys)

\* C6: for every hour and every minute in 0..4 or 30..34 the returned list
\* contains none of MINUTES, PAST and TO.
C6_CleanPhrases ==
    pc = "resolved" /\ minute \in (0..4) \cup (30..34) =>
        Keys(active_keys) \cap {"MINUTES", "PAST", "TO"} = {}

C6_Witness ==
    /\ pc = "resolved" /\ minute = 34
    /\ "HALF" \in Keys(active_keys)

\* the table of C7: the phrase keys of a five-minute bucket
Phrase(bucket) ==
    CASE bucket \in {1, 11} -> <<"FIVE_M">>
      [] bucket \in {2, 10} -> <<"TEN_M">>
      [] bucket \in {3, 9} -> <<"A", "QUARTER">>
      [] bucket \in {4, 8} -> <<"TWENTY">>
      [] bucket \in {5, 7} -> <<"TWENTY", "FIVE_M">>
      [] bucket = 6 -> <<"HALF">>

\* C7: for every hour and every minute in 5..59 the returned list is exactly
\* IT, IS, the bucket's phrase keys, MINUTES iff the minute is in 5..14, 20..29,
\* 35..44 or 50..59, PAST for 5..29 / nothing for 30..34 / TO for 35..59, and one
\* hour key: HOUR_WORDS[displayHour] for 5..34, the following hour's for 35..59.
C7_ExactList ==
    pc = "resolved" /\ minute \in 5..59 =>
        active_keys =
            <<"IT", "IS">>
            \o Phrase(minute \div 5)
            \o (IF minute \in (5..14) \cup (20..29) \cup (35..44) \cup (50..59)
                THEN <<"MINUTES">> ELSE <<>>)
            \o (IF minute \in 5..29 THEN <<"PAST">>
                ELSE IF minute \in 30..34 THEN <<>> ELSE <<"TO">>)
            \o (IF minute \in 5..34 THEN <<HOUR_WORDS[Hour12(hour)]>>
                ELSE <<HOUR_WORDS[Following(hour)]>>)

C7_Witness ==
    /\ pc = "resolved" /\ hour = 0 /\ minute = 7
    /\ active_keys = <<"IT", "IS", "FIVE_M", "MINUTES", "PAST", "TWELVE_H">>

-----------------------------------------------------------------------------
(* Properties of verify_layout, stated on its arguments and its outcome    *)

Rows(g) == Len(g)
Cols(g) == IF Len(g) = 0 THEN 0 ELSE Len(g[1])

\* a grid with at least one row and one column (the code reports a grid
\* without rows or with an empty first row as "invalid or empty")
NonEmptyGrid(g) == Rows(g) > 0 /\ Cols(g) > 0

Rectangular(g) == \A i, j \in 1..Len(g) : Len(g[i]) = Len(g[j])

\* span s = (row, start, end) lies in the grid, with start <= end
InGrid(g, s) ==
    /\ s[1] \in 0..(Rows(g) - 1)
    /\ s[2] \in 0..(Cols(g) - 1)
    /\ s[3] \in s[2]..(Cols(g) - 1)

\* the letters of the grid at a span that lies in it
LettersAt(g, s) == [j \in 1..(s[3] - s[2] + 1) |-> g[s[1] + 1][s[2] + j]]

\* the letters at the spans of a list, in order
RECURSIVE Spelled(_, _)
Spelled(g, pos_list) ==
    IF pos_list = <<>> THEN <<>>
    ELSE LettersAt(g, Head(pos_list)) \o Spelled(g, Tail(pos_list))

\* key k has at least one span and an expected word
Verifiable(k) == word_map[k] # <<>> /\ k \in DOMAIN key_to_word_map

KeyInBounds(k) ==
    \A i \in 1..Len(word_map[k]) : InGrid(grid, word_map[k][i])

KeySpelled(k) ==
    KeyInBounds(k) /\ Spelled(grid, word_map[k]) = key_to_word_map[k]

ErrorLines == {line \in printed : line[1] \in {"ERROR_GRID", "ERROR_BOUNDS", "ERROR_MISMATCH"}}

ProgramLayout ==
    /\ grid = GRID_LAYOUT
    /\ word_map = WORD_POSITIONS
    /\ key_to_word_map = INTERNAL_KEY_TO_WORD

\* C8: verify_layout(GRID_LAYOUT, WORD_POSITIONS, INTERNAL_KEY_TO_WORD) returns
\* success with no violation recorded: the grid is 10 x 11, every span of every
\* key is inside it and the grid letters of each key spell its expected word.
C8_ProgramLayoutVerifies ==
    pc = "done" /\ ProgramLayout =>
        /\ result = TRUE
        /\ ErrorLines = {}
        /\ Rows(grid) = 10 /\ Cols(grid) = 11
        /\ \A k \in DOMAIN word_map : Verifiable(k) /\ KeySpelled(k)

C8_Witness ==
    /\ pc = "done" /\ ProgramLayout
    /\ checked_keys = DOMAIN WORD_POSITIONS
    /\ <<"TWELVE_H", 1>> \in extracted

\* C9: verify_layout returns success if and only if the grid is non-empty and
\* rectangular and every key of the position map that has at least one span and
\* an expected word has all its spans in bounds, with start <= end, and spells
\* its expected word; keys without spans or without an expected word do not count.
C9_SuccessIff ==
    pc = "done" =>
        (result = TRUE <=>
            /\ NonEmptyGrid(grid)
            /\ Rectangular(grid)
            /\ \A k \in DOMAIN word_map : Verifiable(k) => KeySpelled(k))

C9_Witness ==
    /\ pc = "done" /\ result = TRUE
    /\ "K1" \in DOMAIN word_map
    /\ Len(word_map["K1"]) = 2
    /\ Verifiable("K1")

\* the index of the first span of key k that is not in the grid
FirstBad(k) ==
    CHOOSE i \in 1..Len(word_map[k]) :
        /\ ~InGrid(grid, word_map[k][i])
        /\ \A j \in 1..(i - 1) : InGrid(grid, word_map[k][j])

\* what C10 says of a key k with a span out of bounds: an out-of-bounds error
\* for k, no slice taken from the bad span on, no mismatch reported for k, and
\* the result is failure
BoundsErrorHandled(k) ==
    /\ <<"ERROR_BOUNDS", k>> \in printed
    /\ \A i \in 1..Len(word_map[k]) : <<k, i>> \in extracted <=> i < FirstBad(k)
    /\ <<"ERROR_MISMATCH", k>> \notin printed
    /\ result = FALSE

\* every key other than k was still checked: each one that is verifiable has an
\* out-of-bounds error exactly when a span of it is out of bounds and a mismatch
\* error exactly when its spans are in bounds and spell another word
OthersChecked(k) ==
    /\ checked_keys = DOMAIN word_map
    /\ \A o \in DOMAIN word_map \ {k} :
          /\ <<"ERROR_BOUNDS", o>> \in printed <=> Verifiable(o) /\ ~KeyInBounds(o)
          /\ <<"ERROR_MISMATCH", o>> \in printed <=>
                Verifiable(o) /\ KeyInBounds(o) /\ ~KeySpelled(o)

\* C10 as stated: on a grid that has bounds (it passed the structure check),
\* whenever a span of a key k is out of the grid bounds (or has start > end),
\* an out-of-bounds error is recorded for k, k is not checked further, every
\* other key is still checked and the result is failure.
C10_AnyKeyOutOfBounds ==
    pc = "done" /\ NonEmptyGrid(grid) /\ Rectangular(grid) =>
        \A k \in DOMAIN word_map :
            ~KeyInBounds(k) => BoundsErrorHandled(k) /\ OthersChecked(k)

\* C10 as amended: the same for a key k that has an expected word (a key absent
\* from the expected-word map is skipped with a warning, whatever its spans).
C10_VerifiableKeyOutOfBounds ==
    pc = "done" /\ NonEmptyGrid(grid) /\ Rectangular(grid) =>
        \A k \in DOMAIN word_map :
            Verifiable(k) /\ ~KeyInBounds(k) =>
                BoundsErrorHandled(k) /\ OthersChecked(k)

C10_Witness ==
    /\ pc = "done"
    /\ key_order = <<"K2", "K1">>
    /\ Verifiable("K2") /\ ~KeyInBounds("K2")
    /\ <<"ERROR_BOUNDS", "K2">> \in printed
    /\ <<"ERROR_MISMATCH", "K1">> \in printed

-----------------------------------------------------------------------------
(* Properties of the active keys against the layout maps                   *)

\* the grid cells a key lights on the program's layout
CellsOf(key) == draw_word_clock(<<key>>, GRID_LAYOUT, WORD_POSITIONS)

\* C16: for every hour in 0..23 and minute in 0..59, the cells covered by the
\* spans of two different keys active at that time are disjoint, so that the
\* highlighted cells are the disjoint union of the cells of the active keys.
C16_ActiveSpansDisjoint ==
    pc = "resolved" =>
        \A k1, k2 \in Keys(active_keys) :
            k1 # k2 => CellsOf(k1) \cap CellsOf(k2) = {}

\* C17: for every hour in 0..23 and minute in 0..59, every returned key has a
\* non-empty span list in WORD_POSITIONS and an entry in
\* INTERNAL_KEY_TO_WORD: draw_word_clock skips no active key, and each is a
\* key that verify_layout checks against its expected word.
C17_ActiveKeysMapped ==
    pc = "resolved" =>
        \A key \in Keys(active_keys) :
            /\ key \in DOMAIN WORD_POSITIONS
            /\ WORD_POSITIONS[key] # <<>>
            /\ key \in DOMAIN INTERNAL_KEY_TO_WORD
            /\ CellsOf(key) # {}

C17_Witness ==
    /\ pc = "resolved"
    /\ hour = 23
    /\ minute = 40
    /\ Keys(active_keys) = {"IT", "IS", "TWENTY", "MINUTES", "TO", "TWELVE_H"}

-----------------------------------------------------------------------------
(* The resolver with an hour-word map that lacks entries                   *)

\* the hour whose word the phrase needs: the current hour up to minute 34,
\* the following hour from minute 35
NeededHour == IF minute < 35 THEN Hour12(hour) ELSE Following(hour)

\* C14: for every hour, every minute and every hour-word map that lacks the
\* entries of some hours, the returned list has no None entry; it is the list
\* returned with the complete map when the map has the needed hour, and that
\* list without the hour key when the map lacks it.
C14_PartialMapDropsHour ==
    pc = "resolved" =>
        LET full == get_active_words(hour, minute, HOUR_WORDS)
        IN  /\ None \notin Keys(active_keys)
            /\ active_keys =
                  IF NeededHour \in DOMAIN hour_words
                  THEN full
                  ELSE SelectSeq(full, LAMBDA key : key # HOUR_WORDS[NeededHour])

C14_Witness ==
    /\ pc = "resolved"
    /\ hour = 9
    /\ minute = 40
    /\ DOMAIN hour_words = DOMAIN HOUR_WORDS \ {10}
    /\ active_keys = <<"IT", "IS", "TWENTY", "MINUTES", "TO">>

-----------------------------------------------------------------------------
(* Properties of the main program                                          *)

\* verify_layout has returned failure
VerificationFailed ==
    /\ pc \in {"done", "exited", "check", "upload", "skip", "sleep"}
    /\ ~result

\* the loop reads a minute other than the last one it handled
MinuteChange == pc = "check" /\ MinuteOf(now) # last_minute_checked

\* C11: if verify_layout fails at startup the process exits with a non-zero
\* exit code and the service loop is never entered: after a failed
\* verification none of get_active_words, draw_word_clock,
\* send_image_to_server is ever called.
C11_FailedVerificationExits ==
    /\ VerificationFailed =>
          /\ pc \in {"done", "exited"}
          /\ calls = {}
    /\ pc = "exited" => ~result /\ exit_code # 0
    /\ pc # "exited" => exit_code = None

C11_Witness ==
    /\ pc = "exited"
    /\ exit_code = 1
    /\ <<"ERROR_BOUNDS", "TWELVE_H">> \in printed
    /\ calls = {}

\* C13 as stated: every minute boundary leads to a resolve, so whenever the
\* loop finds the minute changed, the minute it reads is the one right after
\* the minute it handled last; and no minute is handled twice.
C13_EveryMinuteResolved ==
    /\ MinuteChange /\ last_minute_checked # -1 =>
          MinuteOf(now) = (last_minute_checked + 1) % 60
    /\ pc \in {"upload", "skip"} => minute # last_minute_checked

\* an upload that returns failure leaves the loop running, its state as it was
FailureKeepsLoop ==
    pc = "upload" /\ send_successful' = "False" =>
        /\ pc' = "sleep"
        /\ exit_code' = None
        /\ last_sent_image_hash' = last_sent_image_hash

\* C12 as stated: a failed upload does not stop the loop, and at the next
\* minute change after a failed upload (and at every later one, until an upload
\* succeeds) the image rendered then is handed to send_image_to_server.
C12_FailedUploadRetried ==
    [][/\ FailureKeepsLoop
       /\ MinuteChange /\ send_successful = "False" => pc' = "upload"]_vars

\* C12 as amended: the same, except that a minute change whose rendered image
\* has the hash stored in last_sent_image_hash (the image delivered last) is
\* skipped, after a failed upload as after a successful one.
C12_FailedUploadRetriedUnlessSent ==
    [][/\ FailureKeepsLoop
       /\ MinuteChange /\ send_successful = "False" =>
             \/ pc' = "upload"
             \/ /\ pc' = "skip"
                /\ current_image_hash' # NoHash
                /\ current_image_hash' = last_sent_image_hash]_vars

C12_Witness ==
    /\ pc = "upload"
    /\ send_successful = "False"
    /\ "send_image_to_server" \in calls
    /\ current_image_hash # last_sent_image_hash

\* last_sent_image_hash changes only by a successful upload of an image whose
\* hash was computed, and then to that hash
HashChangesOnSuccess ==
    last_sent_image_hash' # last_sent_image_hash =>
        /\ pc = "upload"
        /\ send_successful' = "True"
        /\ current_image_hash # NoHash
        /\ last_sent_image_hash' = current_image_hash

\* at a minute change an upload is attempted exactly when the hash of the
\* rendered image could not be computed or differs from last_sent_image_hash
UploadIffHashDiffers ==
    MinuteChange =>
        /\ pc' \in {"upload", "skip"}
        /\ pc' = "upload" <=>
              \/ current_image_hash' = NoHash
              \/ current_image_hash' # last_sent_image_hash

=============================================================================
